---- MODULE Spec2Model ----
(***************************************************************************)
(* Klondike solitaire rule engine of solitaire_rs (src/systems.rs) and its *)
(* render feed (src/render/buffer.rs).                                     *)
(*                                                                         *)
(* Coordinates are the integers the program's f32 values take: every quad  *)
(* position, size and fan offset in the source is an integer, and cursor   *)
(* positions are drawn from integer device pixels.                         *)
(* Vectors are 0-indexed in the source and 1-indexed here: element i of a  *)
(* Vec is At(v, i) == v[i + 1].                                            *)
(***************************************************************************)
EXTENDS Integers, Sequences, FiniteSets, TLC

VARIABLES
    stock,          \* GameState.stock        : Stack {cards, quad}
    talon,          \* GameState.talon        : Stack {cards, quad}
    tableaux,       \* GameState.tableaux     : [Tableau; 7]
    foundations,    \* GameState.foundations  : [Stack; 4]
    hand,           \* GameState.hand         : Stack {cards, quad}
    hand_origin,    \* GameState.hand_origin  : u8
    mouse_pos,      \* GameState.mouse_pos    : Vec2
    tick,           \* GameState.tick, in time quanta
    panicked,       \* TRUE once a handler has panicked (the process is gone)
    moves,          \* number of zone-changing clicks and returns so far
    scenario        \* which part of the game is explored (see Scenarios)

vars == <<stock, talon, tableaux, foundations, hand, hand_origin,
          mouse_pos, tick, panicked, moves, scenario>>

zones == <<stock, talon, tableaux, foundations, hand, hand_origin>>

----------------------------------------------------------------------------
(* Program constants *)

DECK_SIZE == 52
RANKS == 13
TABLEAUX == 7
FOUNDATIONS == 4
FAN_OFFSET == 70
TABLEAU_ORIGIN == 5

SCREEN_SIZE == [x |-> 1200, y |-> 900]
CARD_SIZE == [x |-> 160, y |-> 240]

\* Time is counted in quanta of one tick: TICK_TIME = 1/60 s = 1 quantum.
TICK_TIME == 1

----------------------------------------------------------------------------
(* Bounds of the model *)

\* Zone-changing clicks and returns explored in scenario "play".
MaxMoves == 4
\* The same budget in scenario "stock": a whole pass through the 24 stock
\* cards, the recycle, and the start of the second pass.
MaxStockMoves == 27
\* Tableau columns and fan strips the cursor is moved to.
MaxColumn == 3
MaxStrip == 3
\* Foundation piles the cursor is moved to.
MaxPile == 1
\* Wall-clock quanta that may elapse between two update calls, and the cap
\* on the accumulated tick.
MaxElapsed == 2
MaxTick == 1
\* Scenario "deal": the shuffles of seeds a, b in 0..MaxSeed, and its budget
\* of counted moves.
MaxSeed == 7
MaxDealMoves == 3

----------------------------------------------------------------------------
(* Vec helpers *)

At(v, i) == v[i + 1]
Insert0(v, c) == <<c>> \o v
Remove0(v) == Tail(v)
Last(v) == v[Len(v)]
Pop(v) == SubSeq(v, 1, Len(v) - 1)
\* v[0..i) and v[i..len)
Take(v, i) == SubSeq(v, 1, i)
Drain(v, i) == SubSeq(v, i + 1, Len(v))

Vec2(x, y) == [x |-> x, y |-> y]
Vec2_zero == Vec2(0, 0)

----------------------------------------------------------------------------
(* Card *)

get_rank(value) == value % RANKS

\* Mutation of get_color: Hearts taken for a black suit.
get_color_hearts_black(value) ==
    CASE value \div RANKS = 0 -> "Black"
      [] value \div RANKS = 1 -> "Black"
      [] OTHER -> "Red"

get_color(value) ==
    CASE value \div RANKS = 0 -> "Black"
      [] value \div RANKS = 2 -> "Black"
      [] OTHER -> "Red"

get_suit(value) ==
    CASE value \div RANKS = 0 -> "Spade"
      [] value \div RANKS = 1 -> "Heart"
      [] value \div RANKS = 2 -> "Club"
      [] OTHER -> "Diamond"

Card_new(value) ==
    [value |-> value,
     rank  |-> get_rank(value),
     color |-> get_color(value),
     suit  |-> get_suit(value)]

----------------------------------------------------------------------------
(* Quad *)

Quad_new(pos, size) == [pos |-> pos, size |-> size]

top(q) == q.pos.y + (q.size.y \div 2)
bottom(q) == q.pos.y - (q.size.y \div 2)
right(q) == q.pos.x + (q.size.x \div 2)
left(q) == q.pos.x - (q.size.x \div 2)

contains(q, pos) ==
    /\ pos.y >= bottom(q)
    /\ pos.y <= top(q)
    /\ pos.x >= left(q)
    /\ pos.x <= right(q)

DECK_QUAD == Quad_new(Vec2(-700, 350), CARD_SIZE)

----------------------------------------------------------------------------
(* Tableau *)

Tableau_empty ==
    [cards |-> <<>>, card_quads |-> <<>>, shown_cards |-> 0, x_position |-> 0]

\* The quads calculate_card_quads pushes for a tableau at x_position holding
\* n cards.
card_quads_for(x_position, n) ==
    IF n = 0
    THEN <<Quad_new(Vec2(x_position, 0), CARD_SIZE)>>
    ELSE [k \in 1..n |->
            Quad_new(Vec2(x_position, -((k - 1) * FAN_OFFSET)), CARD_SIZE)]

\* Mutation of calculate_card_quads: an empty tableau gets no placeholder.
calculate_card_quads_no_placeholder(tableau) ==
    [tableau EXCEPT
        !.card_quads =
            [k \in 1..Len(tableau.cards) |->
                Quad_new(Vec2(tableau.x_position, -((k - 1) * FAN_OFFSET)),
                         CARD_SIZE)]]

calculate_card_quads(tableau) ==
    [tableau EXCEPT
        !.card_quads = card_quads_for(tableau.x_position, Len(tableau.cards))]

----------------------------------------------------------------------------
(* Stack *)

Stack_empty == [cards |-> <<>>, quad |-> Quad_new(Vec2_zero, CARD_SIZE)]

\* random_deck with the generator's answers given: picks[j] is the j-th
\* rand_index, drawn from 0..possible_cards.len()-1.
RECURSIVE deck_from(_, _, _)
deck_from(possible_cards, picks, cards) ==
    IF picks = <<>>
    THEN cards
    ELSE LET rand_index == Head(picks)
             random_card == At(possible_cards, rand_index)
         IN  deck_from(Take(possible_cards, rand_index)
                          \o Drain(possible_cards, rand_index + 1),
                       Tail(picks),
                       Append(cards, Card_new(random_card)))

random_deck(picks) ==
    [cards |-> deck_from([k \in 1..DECK_SIZE |-> k - 1], picks, <<>>),
     quad  |-> DECK_QUAD]

----------------------------------------------------------------------------
(* GameState: construction *)

RECURSIVE fill_from(_, _, _)
fill_from(deck_cards, i, tableau) ==
    IF i = TABLEAUX
    THEN [tableaux |-> tableau, rest |-> deck_cards]
    ELSE LET x_position == -700 + ((CARD_SIZE.x + 20) * i)
             stack == calculate_card_quads(
                        [x_position  |-> x_position,
                         card_quads  |-> <<>>,
                         cards       |-> Take(deck_cards, i + 1),
                         shown_cards |-> 1])
         IN  fill_from(Drain(deck_cards, i + 1), i + 1,
                       [tableau EXCEPT ![i] = stack])

\* fill_tableaux drains the deck it is given: .tableaux is its result and
\* .rest the cards left in the deck.
fill_tableaux(deck) ==
    fill_from(deck.cards, 0, [t \in 0..(TABLEAUX - 1) |-> Tableau_empty])

create_foundations ==
    [i \in 0..(FOUNDATIONS - 1) |->
        [Stack_empty EXCEPT
            !.quad.pos = Vec2(-160 + ((CARD_SIZE.x + 20) * i), 350)]]

\* Mutation of GameState_new: the stock keeps the cards dealt to the tableaux.
GameState_new_keeping_dealt(picks) ==
    LET deck   == random_deck(picks)
        filled == fill_tableaux(deck)
    IN  [stock       |-> deck,
         talon       |-> [Stack_empty EXCEPT !.quad.pos = Vec2(-520, 350)],
         tableaux    |-> filled.tableaux,
         hand        |-> Stack_empty,
         foundations |-> create_foundations,
         mouse_pos   |-> Vec2_zero,
         hand_origin |-> 0,
         tick        |-> 0,
         panicked    |-> FALSE]

GameState_new(picks) ==
    LET deck   == random_deck(picks)
        filled == fill_tableaux(deck)
    IN  [stock       |-> [deck EXCEPT !.cards = filled.rest],
         talon       |-> [Stack_empty EXCEPT !.quad.pos = Vec2(-520, 350)],
         tableaux    |-> filled.tableaux,
         hand        |-> Stack_empty,
         foundations |-> create_foundations,
         mouse_pos   |-> Vec2_zero,
         hand_origin |-> 0,
         tick        |-> 0,
         panicked    |-> FALSE]

----------------------------------------------------------------------------
(* GameState: rules *)

\* A handler that panics (integer overflow in a build with overflow checks,
\* an index out of bounds) ends the process; the state at the panic stays.
Panic(self) == [self EXCEPT !.panicked = TRUE]

\* Mutation of can_place_on_tableau: the rank is not compared.
can_place_on_tableau_any_rank(tableau, hand_card) ==
    tableau.color # hand_card.color

\* Mutation of can_place_on_tableau: the color is not compared.
can_place_on_tableau_any_color(tableau, hand_card) ==
    tableau.rank = hand_card.rank + 1

can_place_on_tableau(tableau, hand_card) ==
    tableau.color # hand_card.color /\ tableau.rank = hand_card.rank + 1

\* Mutation of foundation_rank_underflows: hand.rank - 1 is evaluated before
\* the suits are compared.
foundation_rank_underflows_unguarded(foundation, hand_card) ==
    /\ Len(foundation.cards) # 0
    /\ hand_card.rank = 0

\* hand.rank - 1 is evaluated (u8) only after the suit comparison succeeded.
foundation_rank_underflows(foundation, hand_card) ==
    /\ Len(foundation.cards) # 0
    /\ At(foundation.cards, 0).suit = hand_card.suit
    /\ hand_card.rank = 0

\* Mutation of can_place_on_foundation: the suit is not compared.
can_place_on_foundation_any_suit(foundation, hand_card) ==
    LET foundation_size == Len(foundation.cards)
    IN  IF foundation_size = 0
        THEN hand_card.rank = 0
        ELSE At(foundation.cards, 0).rank = hand_card.rank - 1

can_place_on_foundation(foundation, hand_card) ==
    LET foundation_size == Len(foundation.cards)
    IN  IF foundation_size = 0
        THEN hand_card.rank = 0
        ELSE LET foundation_card == At(foundation.cards, 0)
             IN  /\ foundation_card.suit = hand_card.suit
                 /\ foundation_card.rank = hand_card.rank - 1

\* Mutation of stock_click: the drawn card is pushed at the talon's back.
stock_click_pushing_back(self) ==
    IF Len(self.stock.cards) > 0
    THEN [self EXCEPT
            !.talon.cards = Append(@, Last(self.stock.cards)),
            !.stock.cards = Pop(@)]
    ELSE [self EXCEPT
            !.stock.cards = self.talon.cards,
            !.talon.cards = <<>>]

\* Mutation of stock_click: the talon is turned over when it is recycled.
stock_click_turning_over(self) ==
    IF Len(self.stock.cards) > 0
    THEN [self EXCEPT
            !.talon.cards = Insert0(@, Last(self.stock.cards)),
            !.stock.cards = Pop(@)]
    ELSE [self EXCEPT
            !.stock.cards =
                [k \in 1..Len(self.talon.cards) |->
                    self.talon.cards[Len(self.talon.cards) + 1 - k]],
            !.talon.cards = <<>>]

\* Idle branch, stock hit: draw one card onto the talon's front, or recycle
\* the talon into the empty stock.
stock_click(self) ==
    IF Len(self.stock.cards) > 0
    THEN [self EXCEPT
            !.talon.cards = Insert0(@, Last(self.stock.cards)),
            !.stock.cards = Pop(@)]
    ELSE [self EXCEPT
            !.stock.cards = self.talon.cards,
            !.talon.cards = <<>>]

\* Mutation of lift_from_talon: the card lifted also stays on the talon.
lift_from_talon_copying(self) ==
    [self EXCEPT
        !.hand.cards = Append(@, At(self.talon.cards, 0)),
        !.hand_origin = 0]

\* Idle branch, talon hit with a non-empty talon.
lift_from_talon(self) ==
    [self EXCEPT
        !.hand.cards = Append(@, At(self.talon.cards, 0)),
        !.talon.cards = Remove0(@),
        !.hand_origin = 0]

\* The reverse scan of one tableau's quads from index i down: the index of
\* the first face-up card whose quad holds pos, -1 when the scan ends without
\* a hit, -2 when cards.len() - shown_cards overflows.
RECURSIVE scan_quads(_, _, _)
scan_quads(tableau, i, pos) ==
    IF i < 0 THEN -1
    ELSE IF Len(tableau.cards) > 0
    THEN IF tableau.shown_cards > Len(tableau.cards) THEN -2
         ELSE IF /\ i >= Len(tableau.cards) - tableau.shown_cards
                 /\ contains(At(tableau.card_quads, i), pos)
              THEN i
              ELSE scan_quads(tableau, i - 1, pos)
    ELSE scan_quads(tableau, i - 1, pos)

\* Mutation of lift_from_tableau: shown_cards is lowered by one, whatever the
\* number of cards lifted.
lift_from_tableau_one_shown(self, t, i) ==
    LET tableau == self.tableaux[t]
        len     == Len(tableau.cards)
    IN  IF i > len \/ tableau.shown_cards < len - i
        THEN Panic(self)
        ELSE [self EXCEPT
                !.tableaux[t] = calculate_card_quads(
                    [tableau EXCEPT
                        !.shown_cards = @ - 1,
                        !.cards = Take(@, i)]),
                !.hand.cards = Drain(tableau.cards, i),
                !.hand_origin = TABLEAU_ORIGIN + t]

\* Idle branch, tableau t hit at card i: cards i.. go to the hand.
lift_from_tableau(self, t, i) ==
    LET tableau == self.tableaux[t]
        len     == Len(tableau.cards)
    IN  IF i > len \/ tableau.shown_cards < len - i
        THEN Panic(self)
        ELSE [self EXCEPT
                !.tableaux[t] = calculate_card_quads(
                    [tableau EXCEPT
                        !.shown_cards = @ - (len - i),
                        !.cards = Take(@, i)]),
                !.hand.cards = Drain(tableau.cards, i),
                !.hand_origin = TABLEAU_ORIGIN + t]

\* Mutation of lift_from_foundation: the origin tag is the foundation's index.
lift_from_foundation_untagged(self, f) ==
    [self EXCEPT
        !.hand.cards = Append(@, At(self.foundations[f].cards, 0)),
        !.foundations[f].cards = Remove0(@),
        !.hand_origin = f]

\* Idle branch, foundation f hit with a non-empty foundation.
lift_from_foundation(self, f) ==
    [self EXCEPT
        !.hand.cards = Append(@, At(self.foundations[f].cards, 0)),
        !.foundations[f].cards = Remove0(@),
        !.hand_origin = 1 + f]

RECURSIVE idle_foundations(_, _)
idle_foundations(self, f) ==
    IF f = FOUNDATIONS THEN self
    ELSE IF /\ Len(self.foundations[f].cards) > 0
            /\ contains(self.foundations[f].quad, self.mouse_pos)
         THEN lift_from_foundation(self, f)
         ELSE idle_foundations(self, f + 1)

RECURSIVE idle_tableaux(_, _)
idle_tableaux(self, t) ==
    IF t = TABLEAUX THEN idle_foundations(self, 0)
    ELSE LET tableau == self.tableaux[t]
             i == scan_quads(tableau, Len(tableau.card_quads) - 1,
                             self.mouse_pos)
         IN  IF i = -2 THEN Panic(self)
             ELSE IF i >= 0 THEN lift_from_tableau(self, t, i)
             ELSE idle_tableaux(self, t + 1)

\* Mutation of click_idle: a click on the stock goes on to lift the talon's
\* front card.
click_idle_lifting_after_draw(self) ==
    LET drawn == IF contains(self.stock.quad, self.mouse_pos)
                 THEN stock_click(self)
                 ELSE self
    IN  IF /\ \/ contains(drawn.talon.quad, drawn.mouse_pos)
              \/ contains(drawn.stock.quad, drawn.mouse_pos)
           /\ Len(drawn.talon.cards) > 0
        THEN lift_from_talon(drawn)
        ELSE idle_tableaux(drawn, 0)

\* The idle branch: the stock test does not return, the others do.
click_idle(self) ==
    LET drawn == IF contains(self.stock.quad, self.mouse_pos)
                 THEN stock_click(self)
                 ELSE self
    IN  IF /\ contains(drawn.talon.quad, drawn.mouse_pos)
           /\ Len(drawn.talon.cards) > 0
        THEN lift_from_talon(drawn)
        ELSE idle_tableaux(drawn, 0)

\* Mutation of reveal_origin: no card is ever revealed.
reveal_origin_never(self) == self

\* Mutation of reveal_origin: an origin left without cards shows one too.
reveal_origin_without_cards(self) ==
    IF self.hand_origin >= TABLEAU_ORIGIN
    THEN LET origin == self.hand_origin - TABLEAU_ORIGIN
         IN  IF origin >= TABLEAUX THEN Panic(self)
             ELSE IF self.tableaux[origin].shown_cards = 0
                  THEN [self EXCEPT !.tableaux[origin].shown_cards = @ + 1]
                  ELSE self
    ELSE self

\* The reveal rule after a drop: an origin tableau that still has cards and
\* no face-up card shows one. A hand_origin below 5 is no tableau.
reveal_origin(self) ==
    IF self.hand_origin >= TABLEAU_ORIGIN
    THEN LET origin == self.hand_origin - TABLEAU_ORIGIN
         IN  IF origin >= TABLEAUX THEN Panic(self)
             ELSE IF /\ Len(self.tableaux[origin].cards) > 0
                     /\ self.tableaux[origin].shown_cards = 0
                  THEN [self EXCEPT !.tableaux[origin].shown_cards = @ + 1]
                  ELSE self
    ELSE self

\* Mutation of drop_on_tableau: shown_cards grows by one, whatever the
\* number of cards dropped.
drop_on_tableau_showing_one(self, t) ==
    LET tableau == self.tableaux[t]
        dropped ==
            [self EXCEPT
                !.tableaux[t] = calculate_card_quads(
                    [tableau EXCEPT
                        !.shown_cards = @ + 1,
                        !.cards = @ \o self.hand.cards]),
                !.hand.cards = <<>>]
    IN  IF /\ self.hand_origin >= TABLEAU_ORIGIN
           /\ t = self.hand_origin - TABLEAU_ORIGIN
        THEN dropped
        ELSE reveal_origin(dropped)

\* Holding branch, accepted drop on tableau t: the hand is appended, and the
\* reveal rule runs unless t is the origin itself.
drop_on_tableau(self, t) ==
    LET tableau == self.tableaux[t]
        dropped ==
            [self EXCEPT
                !.tableaux[t] = calculate_card_quads(
                    [tableau EXCEPT
                        !.shown_cards = @ + Len(self.hand.cards),
                        !.cards = @ \o self.hand.cards]),
                !.hand.cards = <<>>]
    IN  IF /\ self.hand_origin >= TABLEAU_ORIGIN
           /\ t = self.hand_origin - TABLEAU_ORIGIN
        THEN dropped
        ELSE reveal_origin(dropped)

\* Mutation of drop_on_foundation: the card is put at the foundation's back.
drop_on_foundation_at_back(self, f) ==
    reveal_origin(
        [self EXCEPT
            !.foundations[f].cards = Append(@, At(self.hand.cards, 0)),
            !.hand.cards = Remove0(@)])

\* Holding branch, accepted drop on foundation f.
drop_on_foundation(self, f) ==
    reveal_origin(
        [self EXCEPT
            !.foundations[f].cards = Insert0(@, At(self.hand.cards, 0)),
            !.hand.cards = Remove0(@)])

RECURSIVE holding_foundations(_, _)
holding_foundations(self, f) ==
    IF f = FOUNDATIONS THEN self
    ELSE IF /\ contains(self.foundations[f].quad, self.mouse_pos)
            /\ Len(self.hand.cards) = 1
         THEN IF foundation_rank_underflows(self.foundations[f],
                                            At(self.hand.cards, 0))
              THEN Panic(self)
              ELSE IF can_place_on_foundation(self.foundations[f],
                                              At(self.hand.cards, 0))
              THEN drop_on_foundation(self, f)
              ELSE holding_foundations(self, f + 1)
         ELSE holding_foundations(self, f + 1)

RECURSIVE holding_tableaux(_, _)
holding_tableaux(self, t) ==
    IF t = TABLEAUX THEN holding_foundations(self, 0)
    ELSE LET tableau == self.tableaux[t]
         IN  IF Len(tableau.card_quads) = 0 THEN Panic(self)
             ELSE IF /\ contains(Last(tableau.card_quads), self.mouse_pos)
                     /\ \/ Len(tableau.cards) = 0
                        \/ can_place_on_tableau(Last(tableau.cards),
                                                At(self.hand.cards, 0))
                  THEN drop_on_tableau(self, t)
                  ELSE holding_tableaux(self, t + 1)

click_holding(self) == holding_tableaux(self, 0)

\* Mutation of mouse_click: the stock test also runs while cards are held.
mouse_click_drawing_while_holding(self) ==
    IF Len(self.hand.cards) = 0
    THEN click_idle(self)
    ELSE click_holding(IF contains(self.stock.quad, self.mouse_pos)
                       THEN stock_click(self)
                       ELSE self)

mouse_click(self) ==
    IF Len(self.hand.cards) = 0
    THEN click_idle(self)
    ELSE click_holding(self)

\* Mutation of return_card: a tableau's shown_cards is not raised.
return_card_hiding(self) ==
    IF Len(self.hand.cards) # 0
    THEN IF self.hand_origin = 0
         THEN [self EXCEPT
                 !.talon.cards = Insert0(@, At(self.hand.cards, 0)),
                 !.hand.cards = Remove0(@)]
         ELSE IF self.hand_origin <= FOUNDATIONS
         THEN [self EXCEPT
                 !.foundations[self.hand_origin - 1].cards =
                     Insert0(@, At(self.hand.cards, 0)),
                 !.hand.cards = Remove0(@)]
         ELSE LET origin == self.hand_origin - TABLEAU_ORIGIN
              IN  IF origin >= TABLEAUX THEN Panic(self)
                  ELSE [self EXCEPT
                          !.tableaux[origin] = calculate_card_quads(
                              [@ EXCEPT !.cards = @ \o self.hand.cards]),
                          !.hand.cards = <<>>]
    ELSE self

\* Mutation of return_card: a talon or foundation card goes to the back.
return_card_at_back(self) ==
    IF Len(self.hand.cards) # 0
    THEN IF self.hand_origin = 0
         THEN [self EXCEPT
                 !.talon.cards = Append(@, At(self.hand.cards, 0)),
                 !.hand.cards = Remove0(@)]
         ELSE IF self.hand_origin <= FOUNDATIONS
         THEN [self EXCEPT
                 !.foundations[self.hand_origin - 1].cards =
                     Append(@, At(self.hand.cards, 0)),
                 !.hand.cards = Remove0(@)]
         ELSE LET origin == self.hand_origin - TABLEAU_ORIGIN
              IN  IF origin >= TABLEAUX THEN Panic(self)
                  ELSE [self EXCEPT
                          !.tableaux[origin] = calculate_card_quads(
                              [@ EXCEPT
                                  !.shown_cards = @ + Len(self.hand.cards),
                                  !.cards = @ \o self.hand.cards]),
                          !.hand.cards = <<>>]
    ELSE self

return_card(self) ==
    IF Len(self.hand.cards) # 0
    THEN IF self.hand_origin = 0
         THEN [self EXCEPT
                 !.talon.cards = Insert0(@, At(self.hand.cards, 0)),
                 !.hand.cards = Remove0(@)]
         ELSE IF self.hand_origin <= FOUNDATIONS
         THEN [self EXCEPT
                 !.foundations[self.hand_origin - 1].cards =
                     Insert0(@, At(self.hand.cards, 0)),
                 !.hand.cards = Remove0(@)]
         ELSE LET origin == self.hand_origin - TABLEAU_ORIGIN
              IN  IF origin >= TABLEAUX THEN Panic(self)
                  ELSE [self EXCEPT
                          !.tableaux[origin] = calculate_card_quads(
                              [@ EXCEPT
                                  !.shown_cards = @ + Len(self.hand.cards),
                                  !.cards = @ \o self.hand.cards]),
                          !.hand.cards = <<>>]
    ELSE self

\* update with the wall-clock time since the previous call given. The clock
\* reading previous_time only serves to compute that difference.
update(self, elapsed_time) ==
    LET accumulated == self.tick + elapsed_time
    IN  IF accumulated > TICK_TIME
        THEN [self EXCEPT
                !.hand.quad.pos = self.mouse_pos,
                !.tick = accumulated - TICK_TIME]
        ELSE [self EXCEPT !.tick = accumulated]

\* CursorMoved: device pixels to the centred, y-up, doubled game space.
cursor_moved(self, position) ==
    [self EXCEPT
        !.mouse_pos = Vec2((position.x - (SCREEN_SIZE.x \div 2)) * 2,
                           -(position.y - (SCREEN_SIZE.y \div 2)) * 2)]

----------------------------------------------------------------------------
(* Render feed (src/render/buffer.rs) *)

\* A coordinate is a fraction [num, den]: the feed divides positions by the
\* screen size and texture coordinates by the sprite counts.
SPRITE_COUNT == <<13, 5>>

\* Corner positions in halves of a quad's size (0.5 is one half).
QUAD_VERTS ==
    <<[position |-> <<1, 1>>, tex_coords |-> <<1, 0>>],
      [position |-> <<-1, 1>>, tex_coords |-> <<0, 0>>],
      [position |-> <<-1, -1>>, tex_coords |-> <<0, 1>>],
      [position |-> <<1, -1>>, tex_coords |-> <<1, 1>>]>>

QUAD_INDIS == <<0, 1, 2, 0, 2, 3>>

uv_from_index(uv, sprite_index) ==
    <<[num |-> uv[1] + sprite_index[1], den |-> SPRITE_COUNT[1]],
      [num |-> uv[2] + sprite_index[2], den |-> SPRITE_COUNT[2]]>>

\* create_quad appends to the two lists of buffers; indices are u16.
create_quad(quad, sprite_index, buffers) ==
    LET tile_verts ==
            [k \in 1..4 |->
                LET v == QUAD_VERTS[k]
                IN  [position |->
                        <<[num |-> quad.pos.x
                                     + (v.position[1] * quad.size.x) \div 2,
                           den |-> SCREEN_SIZE.x],
                          [num |-> quad.pos.y
                                     + (v.position[2] * quad.size.y) \div 2,
                           den |-> SCREEN_SIZE.y]>>,
                     tex_coords |-> uv_from_index(v.tex_coords, sprite_index)]]
        tile_indis ==
            [k \in 1..6 |-> (QUAD_INDIS[k] + (Len(buffers.verts) % 65536))
                              % 65536]
    IN  [buffers EXCEPT
            !.verts = @ \o tile_verts,
            !.indis = @ \o tile_indis]

\* The u8 of a card is its ordinal, the value field of Card.
index_from_card(card) == <<card % 13, card \div 13>>

\* Mutation of stack_index: the cell of the stack's back card.
stack_index_back_card(stack) ==
    IF Len(stack.cards) = 0
    THEN <<1, 4>>
    ELSE index_from_card(Last(stack.cards).value)

stack_index(stack) ==
    IF Len(stack.cards) = 0
    THEN <<1, 4>>
    ELSE index_from_card(At(stack.cards, 0).value)

\* The loop over the cards of one tableau, from card i on. The subtraction
\* cards.len() - shown_cards panics when it overflows.
RECURSIVE feed_cards(_, _, _)
feed_cards(tableau, i, buffers) ==
    IF i >= Len(tableau.cards) THEN buffers
    ELSE IF tableau.shown_cards > Len(tableau.cards)
         \/ i >= Len(tableau.card_quads)
    THEN [buffers EXCEPT !.panicked = TRUE]
    ELSE feed_cards(tableau, i + 1,
            create_quad(At(tableau.card_quads, i),
                        IF i >= Len(tableau.cards) - tableau.shown_cards
                        THEN index_from_card(At(tableau.cards, i).value)
                        ELSE <<0, 4>>,
                        buffers))

RECURSIVE feed_tableaux(_, _, _)
feed_tableaux(state, t, buffers) ==
    IF t = TABLEAUX \/ buffers.panicked THEN buffers
    ELSE feed_tableaux(state, t + 1,
                       feed_cards(state.tableaux[t], 0, buffers))

RECURSIVE feed_foundations(_, _, _)
feed_foundations(state, f, buffers) ==
    IF f = FOUNDATIONS THEN buffers
    ELSE feed_foundations(state, f + 1,
            create_quad(state.foundations[f].quad,
                        stack_index(state.foundations[f]), buffers))

RECURSIVE feed_hand(_, _, _)
feed_hand(state, i, buffers) ==
    IF i >= Len(state.hand.cards) THEN buffers
    ELSE feed_hand(state, i + 1,
            create_quad(Quad_new(Vec2(state.hand.quad.pos.x,
                                      state.hand.quad.pos.y - (i * 70)),
                                 CARD_SIZE),
                        index_from_card(At(state.hand.cards, i).value),
                        buffers))

\* The vertex and index lists create_buffers hands to the device.
create_buffers(state) ==
    LET empty  == [verts |-> <<>>, indis |-> <<>>, panicked |-> FALSE]
        stocked == create_quad(state.stock.quad,
                               IF Len(state.stock.cards) = 0
                               THEN <<1, 4>> ELSE <<0, 4>>,
                               empty)
        taloned == create_quad(state.talon.quad, stack_index(state.talon),
                               stocked)
        fanned == feed_tableaux(state, 0, taloned)
    IN  IF fanned.panicked THEN fanned
        ELSE feed_hand(state, 0, feed_foundations(state, 0, fanned))

----------------------------------------------------------------------------
(* Inputs *)

\* Two outcomes of the generator in random_deck, as the 52 values of
\* rand_index. ShuffleA deals  AS | KD KC | JD QD JS | 9D 8D 7D QH | ...  and
\* leaves TD, then 2S, on top of the stock; ShuffleB deals
\* AH | KD 2H | QD JD 2S | TD 9D 8D AS | ...  and leaves 3H on top.
ShuffleA ==
    <<0, 50, 37, 47, 47, 9, 44, 43, 42, 22, 40, 39, 38, 37, 36, 35, 34, 33,
      32, 31, 30, 29, 28, 27, 26, 25, 24, 23, 22, 21, 20, 19, 18, 17, 16, 15,
      14, 13, 12, 11, 10, 9, 8, 7, 6, 5, 4, 3, 2, 1, 0, 0>>
ShuffleB ==
    <<13, 50, 13, 48, 47, 1, 45, 44, 43, 0, 41, 40, 39, 38, 37, 36, 35, 34,
      33, 32, 31, 30, 29, 28, 27, 26, 25, 24, 23, 22, 21, 20, 19, 18, 17, 16,
      15, 14, 13, 12, 10, 9, 8, 7, 6, 5, 4, 3, 2, 1, 0, 0>>
Shuffles == {ShuffleA, ShuffleB}

\* A family of generator outcomes: the j-th rand_index (j = 0..51) is
\* (a + b * j) modulo the number of cards still to pick.
SeededShuffle(a, b) ==
    [k \in 1..DECK_SIZE |-> (a + b * (k - 1)) % (DECK_SIZE - (k - 1))]
SeededShuffles ==
    {SeededShuffle(a, b) : a \in 0..MaxSeed, b \in 0..MaxSeed}

\* Cursor positions in device pixels: the centre of the stock, the talon and
\* foundation f, the strip of tableau column t where card k of a fan shows
\* above card k + 1, and a corner of the window away from every quad.
StockCursor == Vec2(250, 275)
TalonCursor == Vec2(340, 275)
FoundationCursor(f) == Vec2(520 + 90 * f, 275)
TableauCursor(t, k) == Vec2(250 + 90 * t, 400 + 35 * k)
CornerCursor == Vec2(0, 0)

StockCursors == {StockCursor, TalonCursor, CornerCursor}
Cursors ==
    StockCursors
    \cup {FoundationCursor(f) : f \in 0..MaxPile}
    \cup {TableauCursor(t, k) : t \in 0..MaxColumn, k \in 0..MaxStrip}

----------------------------------------------------------------------------
(* The state machine *)

Self ==
    [stock       |-> stock,
     talon       |-> talon,
     tableaux    |-> tableaux,
     foundations |-> foundations,
     hand        |-> hand,
     hand_origin |-> hand_origin,
     mouse_pos   |-> mouse_pos,
     tick        |-> tick,
     panicked    |-> panicked]

zones_of(self) ==
    <<self.stock, self.talon, self.tableaux, self.foundations, self.hand,
      self.hand_origin>>

Becomes(after) ==
    /\ stock' = after.stock
    /\ talon' = after.talon
    /\ tableaux' = after.tableaux
    /\ foundations' = after.foundations
    /\ hand' = after.hand
    /\ hand_origin' = after.hand_origin
    /\ mouse_pos' = after.mouse_pos
    /\ tick' = after.tick
    /\ panicked' = after.panicked

\* A click or return that changes a zone is counted, up to limit of them.
Counted(after, limit) ==
    IF zones_of(after) # zones_of(Self)
    THEN moves < limit /\ moves' = moves + 1
    ELSE moves' = moves

InitFrom(shuffles) ==
    \E picks \in shuffles :
        LET game == GameState_new(picks)
        IN  /\ stock = game.stock
            /\ talon = game.talon
            /\ tableaux = game.tableaux
            /\ foundations = game.foundations
            /\ hand = game.hand
            /\ hand_origin = game.hand_origin
            /\ mouse_pos = game.mouse_pos
            /\ tick = game.tick
            /\ panicked = game.panicked
            /\ moves = 0

\* What a scenario explores: its shuffles, its cursor positions, its budget
\* of counted moves, and whether frame updates are interleaved.
\*   "play"  : a game on the stock, the talon, the first foundations and the
\*             first tableau columns;
\*   "stock" : a game on the stock and the talon alone, through a whole pass
\*             of the stock and its recycling, with frame updates;
\*   "deal"  : the first moves of the games a family of shuffles deals.
Scenarios == {"play", "stock", "deal"}
ShufflesOf(sc) == IF sc = "deal" THEN SeededShuffles ELSE Shuffles
CursorsOf(sc) == IF sc = "play" THEN Cursors ELSE StockCursors
LimitOf(sc) ==
    CASE sc = "play" -> MaxMoves
      [] sc = "stock" -> MaxStockMoves
      [] OTHER -> MaxDealMoves

Init ==
    \E sc \in Scenarios : scenario = sc /\ InitFrom(ShufflesOf(sc))

CursorMoved ==
    /\ ~panicked
    /\ \E position \in CursorsOf(scenario) :
          Becomes(cursor_moved(Self, position))
    /\ UNCHANGED <<moves, scenario>>

MouseClick ==
    /\ ~panicked
    /\ LET after == mouse_click(Self)
       IN  Counted(after, LimitOf(scenario)) /\ Becomes(after)
    /\ UNCHANGED scenario

ReturnCard ==
    /\ ~panicked
    /\ LET after == return_card(Self)
       IN  Counted(after, LimitOf(scenario)) /\ Becomes(after)
    /\ UNCHANGED scenario

Update ==
    /\ ~panicked
    /\ scenario = "stock"
    /\ \E elapsed_time \in 0..MaxElapsed :
          LET after == update(Self, elapsed_time)
          IN  after.tick <= MaxTick /\ Becomes(after)
    /\ UNCHANGED <<moves, scenario>>

Next == CursorMoved \/ MouseClick \/ ReturnCard \/ Update
Spec == Init /\ [][Next]_vars

\* The game as the render feed is given it. The feed reads the zones and
\* not the pointer, so the pointer is moved and the click made in one step,
\* and only the clicks that change a zone are taken.
PointAndClick ==
    /\ ~panicked
    /\ \E position \in CursorsOf(scenario) :
          LET after == mouse_click(cursor_moved(Self, position))
          IN  /\ zones_of(after) # zones_of(Self)
              /\ Counted(after, LimitOf(scenario))
              /\ Becomes(after)
    /\ UNCHANGED scenario

FeedNext == PointAndClick \/ ReturnCard \/ Update
FeedSpec == Init /\ [][FeedNext]_vars

----------------------------------------------------------------------------
(* Notions the properties are stated with *)

\* Every card the game holds, zone after zone.
AllCards ==
    stock.cards \o talon.cards
    \o tableaux[0].cards \o tableaux[1].cards \o tableaux[2].cards
    \o tableaux[3].cards \o tableaux[4].cards \o tableaux[5].cards
    \o tableaux[6].cards
    \o foundations[0].cards \o foundations[1].cards
    \o foundations[2].cards \o foundations[3].cards
    \o hand.cards

ValuesOf(cards) == {cards[k].value : k \in 1..Len(cards)}

Held(value) == value \in ValuesOf(AllCards)

Idle == Len(hand.cards) = 0
Holding == Len(hand.cards) > 0

\* The indices (from 0) of the quads of a tableau that hold a point, and the
\* frontmost of them: quads are drawn in index order, the last on top.
HitSet(tableau, pos) ==
    {i \in 0..(Len(tableau.card_quads) - 1) :
        contains(tableau.card_quads[i + 1], pos)}
Frontmost(hits) == CHOOSE i \in hits : \A j \in hits : j <= i

\* The fan of n cards in the column at x: card i at (x, -70 * i), and the one
\* placeholder at (x, 0) of an empty column.
FanOf(x, n) ==
    IF n = 0
    THEN <<[pos |-> [x |-> x, y |-> 0], size |-> [x |-> 160, y |-> 240]]>>
    ELSE [k \in 1..n |->
            [pos |-> [x |-> x, y |-> -70 * (k - 1)],
             size |-> [x |-> 160, y |-> 240]]]

OtherTableauxKept(t) ==
    \A u \in 0..6 : u # t => tableaux'[u] = tableaux[u]
OtherFoundationsKept(f) ==
    \A g \in 0..3 : g # f => foundations'[g] = foundations[g]
ZonesKept == zones' = zones

----------------------------------------------------------------------------
(* C1 *)

\* C1: in every reachable state the cards of the stock, the talon, the seven
\* tableaux, the four foundations and the hand are together exactly the 52
\* ordinals 0..51, each held exactly once.
C1_DeckConserved ==
    LET all == AllCards
    IN  /\ Len(all) = 52
        /\ ValuesOf(all) = 0..51

\* Cards have travelled: two cards lie on a foundation, put there from the
\* tableaux through the hand.
C1_Witness ==
    /\ Len(foundations[0].cards) = 2
    /\ Len(hand.cards) = 0
    /\ Len(tableaux[0].cards) = 0

----------------------------------------------------------------------------
(* C2 *)

\* C2: in the state GameState::new produces (no counted move yet), whatever
\* the shuffle, tableau i holds i + 1 cards of which one is shown, the stock
\* holds the other 24 cards, and the talon, the foundations and the hand are
\* empty.
C2_InitialDeal ==
    moves = 0 =>
        /\ \A i \in 0..6 :
              /\ Len(tableaux[i].cards) = i + 1
              /\ tableaux[i].shown_cards = 1
        /\ Len(stock.cards) = 24
        /\ talon.cards = <<>>
        /\ \A f \in 0..3 : foundations[f].cards = <<>>
        /\ hand.cards = <<>>

\* A freshly dealt game of a seeded shuffle that is none of the two written
\* out: its first tableau card is neither AS nor AH.
C2_Witness ==
    /\ moves = 0
    /\ scenario = "deal"
    /\ tableaux[0].cards[1].value \notin {0, 13}

----------------------------------------------------------------------------
(* C3 *)

SuitOfQuotient == <<"Spade", "Heart", "Club", "Diamond">>

\* C3: every card held, that is Card::new(v) for every ordinal v in 0..51,
\* has rank v mod 13, the suit Spade, Heart, Club, Diamond for v / 13 =
\* 0, 1, 2, 3, and the color Black exactly for Spade and Club and Red
\* otherwise; ordinal 0 is the black Ace of Spades, ordinal 51 the red King
\* of Diamonds, and no two ordinals share their rank and suit.
C3_CardDerivation ==
    LET all == AllCards
        held == {all[k] : k \in 1..Len(all)}
    IN  /\ {card.value : card \in held} = 0..51
        /\ \A card \in held :
              /\ card.rank = card.value % 13
              /\ card.suit = SuitOfQuotient[(card.value \div 13) + 1]
              /\ card.color = IF card.suit \in {"Spade", "Club"}
                              THEN "Black" ELSE "Red"
        /\ \A card \in held :
              /\ card.value = 0 =>
                    card.rank = 0 /\ card.suit = "Spade" /\ card.color = "Black"
              /\ card.value = 51 =>
                    card.rank = 12 /\ card.suit = "Diamond" /\ card.color = "Red"
        /\ Cardinality({<<card.rank, card.suit>> : card \in held})
              = Cardinality({card.value : card \in held})

\* The two ordinals the claim names are held, one of them on a foundation
\* after it went through the hand.
C3_Witness ==
    /\ Held(51)
    /\ Len(foundations[0].cards) > 0
    /\ foundations[0].cards[1].value = 0

----------------------------------------------------------------------------
(* C4 *)

\* C4: a click on the stock with an empty hand and a non-empty stock moves
\* the stock's last card to the front of the talon and nothing else: the
\* other stock and talon cards keep their order, and the tableaux, the
\* foundations and the hand are unchanged.
C4_StockDraw ==
    [][(/\ Idle
        /\ Len(stock.cards) > 0
        /\ contains(stock.quad, mouse_pos)
        /\ MouseClick)
       => (/\ stock'.cards = SubSeq(stock.cards, 1, Len(stock.cards) - 1)
           /\ talon'.cards = <<stock.cards[Len(stock.cards)]>> \o talon.cards
           /\ tableaux' = tableaux
           /\ foundations' = foundations
           /\ hand' = hand)]_vars

\* Five cards have been drawn: TD first, so it lies at the back of the talon.
C4_Witness ==
    /\ Len(stock.cards) = 19
    /\ Len(talon.cards) = 5
    /\ talon.cards[5].value = 48
    /\ Idle

----------------------------------------------------------------------------
(* C5 *)

\* C5: a click on the stock with an empty hand, an empty stock and a
\* non-empty talon recycles: the stock then holds the talon's cards in the
\* talon's order, the talon is empty, and the tableaux, the foundations and
\* the hand are unchanged.
C5_StockRecycle ==
    [][(/\ Idle
        /\ Len(stock.cards) = 0
        /\ Len(talon.cards) > 0
        /\ contains(stock.quad, mouse_pos)
        /\ MouseClick)
       => (/\ stock'.cards = talon.cards
           /\ talon'.cards = <<>>
           /\ tableaux' = tableaux
           /\ foundations' = foundations
           /\ hand' = hand)]_vars

\* The stock after 24 draws and the recycle: full again, TD on top.
C5_Witness ==
    /\ moves = 25
    /\ Len(stock.cards) = 24
    /\ stock.cards[24].value = 48
    /\ talon.cards = <<>>

----------------------------------------------------------------------------
(* C6 *)

\* C6: a click with an empty hand lifts from tableau t exactly when the
\* frontmost quad of t holding the pointer is the quad of a face-up card,
\* index i >= len - shown_cards. Then the cards i..len-1 are the hand, in
\* order, shown_cards has decreased by their number, the quads are those
\* of the cards left, and hand_origin is 5 + t. A click whose frontmost
\* quad is a face-down card's lifts nothing, and a tableau the pointer is
\* not on keeps its cards.
C6_TableauLift ==
    [][(Idle /\ MouseClick)
       => \A t \in 0..6 :
            LET tableau == tableaux[t]
                len     == Len(tableau.cards)
                hits    == HitSet(tableau, mouse_pos)
            IN  IF len > 0 /\ hits # {}
                THEN LET i == Frontmost(hits)
                     IN  IF i >= len - tableau.shown_cards
                         THEN /\ hand'.cards = SubSeq(tableau.cards, i + 1, len)
                              /\ tableaux'[t].cards = SubSeq(tableau.cards, 1, i)
                              /\ tableaux'[t].shown_cards =
                                    tableau.shown_cards - (len - i)
                              /\ tableaux'[t].card_quads =
                                    FanOf(tableau.x_position, i)
                              /\ tableaux'[t].x_position = tableau.x_position
                              /\ hand_origin' = 5 + t
                              /\ OtherTableauxKept(t)
                              /\ stock' = stock
                              /\ talon' = talon
                              /\ foundations' = foundations
                         ELSE ZonesKept
                ELSE tableaux'[t] = tableaux[t]]_vars

\* A run of two cards is in the hand, lifted from tableau 3 by a click on
\* the lower of its two face-up cards.
C6_Witness ==
    /\ Len(hand.cards) = 2
    /\ hand_origin = 8
    /\ tableaux[3].shown_cards = 0
    /\ Len(tableaux[3].cards) = 3

----------------------------------------------------------------------------
(* C7 *)

\* C7: a click with an empty hand on a non-empty talon lifts its front card
\* and sets hand_origin to 0; on a non-empty foundation f it lifts the front
\* card and sets hand_origin to 1 + f; on an empty talon or an empty
\* foundation it changes no zone and the hand stays empty.
C7_FrontLift ==
    [][(Idle /\ MouseClick)
       => /\ contains(talon.quad, mouse_pos) =>
               IF Len(talon.cards) > 0
               THEN /\ hand'.cards = <<talon.cards[1]>>
                    /\ talon'.cards = Tail(talon.cards)
                    /\ hand_origin' = 0
                    /\ stock' = stock
                    /\ tableaux' = tableaux
                    /\ foundations' = foundations
               ELSE ZonesKept
          /\ \A f \in 0..3 :
               contains(foundations[f].quad, mouse_pos) =>
                 IF Len(foundations[f].cards) > 0
                 THEN /\ hand'.cards = <<foundations[f].cards[1]>>
                      /\ foundations'[f].cards = Tail(foundations[f].cards)
                      /\ hand_origin' = 1 + f
                      /\ OtherFoundationsKept(f)
                      /\ stock' = stock
                      /\ talon' = talon
                      /\ tableaux' = tableaux
                 ELSE ZonesKept]_vars

\* The hand holds the Ace lifted back from foundation 0, where it had been
\* put from tableau 0.
C7_Witness ==
    /\ Len(hand.cards) = 1
    /\ hand.cards[1].rank = 0
    /\ hand_origin = 1
    /\ foundations[0].cards = <<>>
    /\ Len(tableaux[0].cards) = 0

----------------------------------------------------------------------------
(* C8 *)

\* The tableau rule as the claim words it: an empty tableau, or a last card
\* of the other color and of the rank one above the hand's first card.
TableauAccepts(tableau) ==
    \/ Len(tableau.cards) = 0
    \/ LET last  == tableau.cards[Len(tableau.cards)]
           first == hand.cards[1]
       IN  /\ (last.value \div 13) % 2 # (first.value \div 13) % 2
           /\ last.value % 13 = (first.value % 13) + 1

\* C8: while holding, a click on the last quad of tableau t is accepted if
\* and only if TableauAccepts(t). Accepted, the hand's cards are appended in
\* order, shown_cards grows by their number and the hand is empty; rejected,
\* the hand and the tableaux are as before.
C8_TableauDrop ==
    [][(Holding /\ MouseClick)
       => \A t \in 0..6 :
            LET tableau == tableaux[t]
            IN  contains(tableau.card_quads[Len(tableau.card_quads)],
                         mouse_pos)
                => IF TableauAccepts(tableau)
                   THEN /\ tableaux'[t].cards = tableau.cards \o hand.cards
                        /\ tableaux'[t].shown_cards =
                              tableau.shown_cards + Len(hand.cards)
                        /\ hand'.cards = <<>>
                   ELSE /\ hand' = hand
                        /\ tableaux' = tableaux]_vars

\* The run QH JS, lifted from tableau 3, has been dropped on the KC of
\* tableau 1, which now shows three cards.
C8_Witness ==
    /\ Idle
    /\ Len(tableaux[1].cards) = 4
    /\ tableaux[1].shown_cards = 3
    /\ tableaux[1].cards[3].value = 24
    /\ tableaux[1].cards[4].value = 10

----------------------------------------------------------------------------
(* C9 *)

\* The foundation rule as the claim words it: one card in the hand, and
\* either an empty foundation and an Ace, or a front card of the same suit
\* and of the rank one below.
FoundationAccepts(foundation) ==
    /\ Len(hand.cards) = 1
    /\ LET first == hand.cards[1]
       IN  IF Len(foundation.cards) = 0
           THEN first.value % 13 = 0
           ELSE LET front == foundation.cards[1]
                IN  /\ front.value \div 13 = first.value \div 13
                    /\ (front.value % 13) + 1 = first.value % 13

\* C9: while holding, a click on foundation f is accepted if and only if
\* FoundationAccepts(f). Accepted, the card is put at the foundation's front
\* and the hand is empty; rejected, the hand and the foundations are as
\* before.
C9_FoundationDrop ==
    [][(Holding /\ MouseClick)
       => \A f \in 0..3 :
            contains(foundations[f].quad, mouse_pos)
            => IF FoundationAccepts(foundations[f])
               THEN /\ foundations'[f].cards =
                          <<hand.cards[1]>> \o foundations[f].cards
                    /\ OtherFoundationsKept(f)
                    /\ hand'.cards = <<>>
               ELSE /\ hand' = hand
                    /\ foundations' = foundations]_vars

\* 2H lies on AH on foundation 0.
C9_Witness ==
    /\ Idle
    /\ Len(foundations[0].cards) = 2
    /\ foundations[0].cards[1].value = 14
    /\ foundations[0].cards[2].value = 13

----------------------------------------------------------------------------
(* C10 *)

\* A drop: a click that empties a non-empty hand.
Drop == Holding /\ MouseClick /\ hand'.cards = <<>>

\* C10: after a drop of a hand lifted from tableau o, shown_cards of o is
\* what it was plus the cards the drop appended to o, except that an o left
\* with cards and none of them shown shows one.
C10_RevealAfterDrop ==
    [][(hand_origin >= 5 /\ hand_origin <= 11 /\ Drop)
       => LET o        == hand_origin - 5
              appended == Len(tableaux'[o].cards) - Len(tableaux[o].cards)
              shown    == tableaux[o].shown_cards + appended
          IN  /\ appended \in {0, Len(hand.cards)}
              /\ tableaux'[o].shown_cards =
                    IF Len(tableaux'[o].cards) > 0 /\ shown = 0
                    THEN 1
                    ELSE shown]_vars

\* JS has left tableau 2 for the QH of tableau 3, and the QD beneath it is
\* now the one shown card of tableau 2.
C10_Witness ==
    /\ Idle
    /\ Len(tableaux[2].cards) = 2
    /\ tableaux[2].shown_cards = 1
    /\ Len(tableaux[3].cards) = 5
    /\ tableaux[3].cards[5].value = 10

----------------------------------------------------------------------------
(* C11 *)

\* C11: in every reachable state in which the hand is empty, every tableau
\* that holds cards shows at least one of them: a tableau whose face-up
\* cards were all lifted shows a card again once the hand has been placed
\* elsewhere or returned.
C11_ShownWhenIdle ==
    Idle =>
        \A t \in 0..6 :
            Len(tableaux[t].cards) > 0 => tableaux[t].shown_cards >= 1

\* The 2S, the one face-up card of tableau 2, was lifted and, no tableau
\* accepting it back, returned: tableau 2 shows it again.
C11_Witness ==
    /\ Idle
    /\ scenario = "play"
    /\ moves = 2
    /\ hand_origin = 7
    /\ Len(tableaux[2].cards) = 3
    /\ tableaux[2].cards[3].value = 1
    /\ tableaux[2].shown_cards = 1

----------------------------------------------------------------------------
(* C12 *)

\* The cards of the stock, the talon, the foundations and the tableaux (with
\* shown_cards and card_quads) as they are once the hand is put back where
\* hand_origin says it came from; with an empty hand, as they are.
PutBack ==
    IF Idle
    THEN <<stock.cards, talon.cards, foundations, tableaux>>
    ELSE IF hand_origin = 0
    THEN <<stock.cards, hand.cards \o talon.cards, foundations, tableaux>>
    ELSE IF hand_origin <= 4
    THEN <<stock.cards, talon.cards,
           [foundations EXCEPT ![hand_origin - 1].cards = hand.cards \o @],
           tableaux>>
    ELSE <<stock.cards, talon.cards, foundations,
           [tableaux EXCEPT ![hand_origin - 5] =
               [x_position  |-> @.x_position,
                cards       |-> @.cards \o hand.cards,
                shown_cards |-> @.shown_cards + Len(hand.cards),
                card_quads  |-> FanOf(@.x_position,
                                      Len(@.cards) + Len(hand.cards))]]>>

\* C12: the zones with the hand put back do not change from the state before
\* a lift, through the lift and every rejected click, cursor move and update
\* made while holding, to the state after return_card, where the hand is
\* empty: the return restores every zone's cards in their order and every
\* tableau's shown_cards and card_quads.
C12_LiftThenReturn ==
    [][/\ (Holding' \/ (Holding /\ ReturnCard)) => PutBack' = PutBack
       /\ ReturnCard => Idle']_vars

\* Two cards were drawn, the front one lifted from the talon, held through a
\* frame update and returned.
C12_Witness ==
    /\ scenario = "stock"
    /\ Idle
    /\ moves = 4
    /\ Len(stock.cards) = 22
    /\ Len(talon.cards) = 2
    /\ hand.quad.pos # Vec2_zero

----------------------------------------------------------------------------
(* C13 *)

\* C13: while holding, a click that is no accepted drop (the pointer is on
\* no last quad of a tableau that accepts the hand and on no foundation that
\* accepts it) changes neither the stock, the talon, a tableau, a foundation,
\* the hand nor hand_origin; a click on the stock neither draws nor recycles.
C13_RejectedClick ==
    [][(/\ Holding
        /\ ~ \E t \in 0..6 :
               /\ contains(tableaux[t].card_quads[Len(tableaux[t].card_quads)],
                           mouse_pos)
               /\ TableauAccepts(tableaux[t])
        /\ ~ \E f \in 0..3 :
               /\ contains(foundations[f].quad, mouse_pos)
               /\ FoundationAccepts(foundations[f])
        /\ MouseClick)
       => ZonesKept]_vars

\* A card lifted from the talon is held with the pointer on the stock, which
\* still has cards to draw.
C13_Witness ==
    /\ Holding
    /\ hand_origin = 0
    /\ contains(stock.quad, mouse_pos)
    /\ Len(stock.cards) > 0
    /\ Len(talon.cards) > 0

----------------------------------------------------------------------------
(* C14 *)

\* The zones a step takes cards from or gives cards to, the stock aside.
ZonesTouched ==
    (IF talon' # talon THEN {<<"talon", 0>>} ELSE {})
    \cup {<<"tableau", t>> : t \in {u \in 0..6 : tableaux'[u] # tableaux[u]}}
    \cup {<<"foundation", f>> :
            f \in {g \in 0..3 : foundations'[g] # foundations[g]}}

\* C14: a click with an empty hand does one thing at most. On the stock it
\* draws or recycles and lifts nothing: the hand is still empty and no
\* tableau or foundation has changed. A click that lifts takes the hand's
\* cards from exactly one zone, and leaves the stock alone.
C14_OneAction ==
    [][(Idle /\ MouseClick)
       => /\ contains(stock.quad, mouse_pos) =>
                /\ hand' = hand
                /\ tableaux' = tableaux
                /\ foundations' = foundations
          /\ Holding' =>
                /\ stock' = stock
                /\ Cardinality(ZonesTouched) = 1]_vars

\* Three cards have been drawn, the pointer is still on the stock and the
\* hand is empty, although the talon has a card to lift.
C14_Witness ==
    /\ scenario = "stock"
    /\ Idle
    /\ moves = 3
    /\ contains(stock.quad, mouse_pos)
    /\ Len(talon.cards) = 3

----------------------------------------------------------------------------
(* C15 *)

\* C15: in every reachable state each tableau has, for cards, one quad per
\* card, the quad of card i at (x_position, -70 * i), and without cards the
\* one placeholder quad at (x_position, 0); card_quads is never empty, so
\* that its last element exists.
C15_QuadsConsistent ==
    \A t \in 0..6 :
        LET tableau == tableaux[t]
            len     == Len(tableau.cards)
        IN  /\ Len(tableau.card_quads) >= 1
            /\ IF len > 0
               THEN /\ Len(tableau.card_quads) = len
                    /\ \A i \in 0..(len - 1) :
                          /\ tableau.card_quads[i + 1].pos.x =
                                tableau.x_position
                          /\ tableau.card_quads[i + 1].pos.y = -70 * i
               ELSE /\ Len(tableau.card_quads) = 1
                    /\ tableau.card_quads[1].pos.x = tableau.x_position
                    /\ tableau.card_quads[1].pos.y = 0

\* The one card of tableau 0 is in the hand and the pointer is on the
\* placeholder quad of the emptied tableau.
C15_Witness ==
    /\ Holding
    /\ hand_origin = 5
    /\ tableaux[0].cards = <<>>
    /\ contains(tableaux[0].card_quads[1], mouse_pos)

----------------------------------------------------------------------------
(* C16 *)

\* The cell of the card of ordinal value shown face up: its rank and the
\* index of its suit.
FaceUp(card) == <<card.value % 13, card.value \div 13>>

CellsOf(cards) == [k \in 1..Len(cards) |-> FaceUp(cards[k])]
FrontCell(cards) == IF cards = <<>> THEN <<1, 4>> ELSE FaceUp(cards[1])
FanCells(tableau) ==
    [k \in 1..Len(tableau.cards) |->
        IF k - 1 >= Len(tableau.cards) - tableau.shown_cards
        THEN FaceUp(tableau.cards[k])
        ELSE <<0, 4>>]

\* The cells the claim gives, in the order of the feed: stock, talon, the
\* tableaux card after card, the foundations, the hand.
CellsClaimed ==
    <<IF stock.cards = <<>> THEN <<1, 4>> ELSE <<0, 4>>>>
    \o <<FrontCell(talon.cards)>>
    \o FanCells(tableaux[0]) \o FanCells(tableaux[1]) \o FanCells(tableaux[2])
    \o FanCells(tableaux[3]) \o FanCells(tableaux[4]) \o FanCells(tableaux[5])
    \o FanCells(tableaux[6])
    \o [k \in 1..4 |-> FrontCell(foundations[k - 1].cards)]
    \o CellsOf(hand.cards)

\* The cell a quad of the feed shows: the texture coordinates of its top
\* left vertex, in sprites.
CellShown(verts, q) ==
    LET corner == verts[4 * q + 2].tex_coords
    IN  <<corner[1].num, corner[2].num>>

\* C16: in every reachable state the feed emits, in order, one quad for the
\* stock ([1,4] when empty, else [0,4]), one for the talon and one for each
\* foundation ([1,4] when empty, else the cell of the front card), one for
\* each tableau card (its face-up cell [rank, suit index] exactly when its
\* index is at least len - shown_cards, else [0,4]) and one for each hand
\* card (its face-up cell); every quad has 4 vertices and 6 indices, all of
\* them indices of its own 4 vertices.
C16_RenderFeed ==
    LET buffers == create_buffers(Self)
        claimed == CellsClaimed
        quads   == Len(claimed)
    IN  /\ ~buffers.panicked
        /\ Len(buffers.verts) = 4 * quads
        /\ Len(buffers.indis) = 6 * quads
        /\ \A q \in 0..(quads - 1) :
              /\ CellShown(buffers.verts, q) = claimed[q + 1]
              /\ \A k \in 1..6 :
                    buffers.indis[6 * q + k] \in (4 * q)..(4 * q + 3)

\* The stock has been drawn empty and the talon's front card lifted: the
\* feed has the empty-stock cell, the cell of the talon's next card, the
\* face-down and face-up cells of the tableaux and a hand quad.
C16_Witness ==
    /\ Holding
    /\ hand_origin = 0
    /\ stock.cards = <<>>
    /\ Len(talon.cards) = 23

----------------------------------------------------------------------------
(* C17 *)

\* C17: in every reachable state no tableau shows more cards than it holds,
\* and no handler has panicked on the subtractions cards.len() - shown_cards
\* and shown_cards -= cards.len() - i.
C17_ShownWithinCards ==
    /\ \A t \in 0..6 : tableaux[t].shown_cards <= Len(tableaux[t].cards)
    /\ ~panicked

\* Tableau 0, emptied of its Ace, holds one card dropped on it, and shows it.
C17_Witness ==
    /\ Idle
    /\ scenario = "play"
    /\ Len(tableaux[0].cards) = 1
    /\ tableaux[0].cards[1].value % 13 # 0
    /\ tableaux[0].shown_cards = 1

----------------------------------------------------------------------------
(* C18 *)

\* C18: in every reachable state in which one Ace is held, no foundation
\* that holds cards has a front card of the Ace's suit, so that
\* can_place_on_foundation does not reach hand.rank - 1; a click on such a
\* foundation does not panic and changes no zone.
C18_AceOnFoundation ==
    (Len(hand.cards) = 1 /\ hand.cards[1].value % 13 = 0) =>
        \A f \in 0..3 :
            Len(foundations[f].cards) > 0 =>
                /\ foundations[f].cards[1].value \div 13
                      # hand.cards[1].value \div 13
                /\ contains(foundations[f].quad, mouse_pos) =>
                      LET after == mouse_click(Self)
                      IN  /\ ~after.panicked
                          /\ zones_of(after) = zones_of(Self)

\* An Ace is held with the pointer on foundation 0, which holds another Ace.
C18_Witness ==
    /\ Len(hand.cards) = 1
    /\ hand.cards[1].value % 13 = 0
    /\ Len(foundations[0].cards) > 0
    /\ contains(foundations[0].quad, mouse_pos)

----------------------------------------------------------------------------
(* C19 *)

\* C19: in every reachable state the cards of each foundation are of one
\* suit, and their ranks from the back (last index) to the front (index 0)
\* are 0, 1, ..., k - 1 for its length k.
C19_FoundationOrder ==
    \A f \in 0..3 :
        LET cards == foundations[f].cards
            k     == Len(cards)
        IN  \A j \in 1..k :
                /\ cards[j].value \div 13 = cards[1].value \div 13
                /\ cards[j].value % 13 = k - j

\* A card lifted from foundation 0 is back on it, after the four moves that
\* put it there, lifted it and put it back.
C19_Witness ==
    /\ Idle
    /\ hand_origin = 1
    /\ moves = 4
    /\ Len(foundations[0].cards) >= 1

----------------------------------------------------------------------------
(* C20 *)

\* A run: each card after the first is of the other color than the card
\* before it and of the rank one below.
IsRun(cards) ==
    \A k \in 2..Len(cards) :
        /\ (cards[k].value \div 13) % 2 # (cards[k - 1].value \div 13) % 2
        /\ cards[k].value % 13 = (cards[k - 1].value % 13) - 1

\* C20: in every reachable state the shown cards of each tableau, its last
\* shown_cards cards, are a run, and so are the cards of a hand lifted from
\* a tableau.
C20_FaceUpRuns ==
    /\ \A t \in 0..6 :
          LET cards == tableaux[t].cards
              shown == tableaux[t].shown_cards
          IN  /\ shown <= Len(cards)
              /\ IsRun(SubSeq(cards, Len(cards) - shown + 1, Len(cards)))
    /\ (Holding /\ hand_origin >= 5) => IsRun(hand.cards)

\* JS, lifted from tableau 2, has been put back on it, on the face-down QD
\* it had left exposed.
C20_Witness ==
    /\ Idle
    /\ scenario = "play"
    /\ moves = 2
    /\ hand_origin = 7
    /\ tableaux[2].shown_cards = 1
    /\ tableaux[2].cards[2].value = 50
    /\ tableaux[2].cards[3].value = 10

----------------------------------------------------------------------------
(* C21 *)

\* The number of face-down cards of a tableau.
FaceDown(tableau) == Len(tableau.cards) - tableau.shown_cards

\* C21: in every step, the number of face-down cards of each tableau stays
\* as it is or falls by one, and the cards still face down are the cards
\* that were at the same places before: no card is turned face down again
\* and none is put under or among the face-down cards. It falls only by a
\* reveal: a drop of a hand lifted from that tableau, which it left with no
\* card shown, onto another zone.
C21_FaceDownNeverGrows ==
    [][tableaux' # tableaux =>
        \A t \in 0..6 :
            LET before == FaceDown(tableaux[t])
                after  == FaceDown(tableaux'[t])
            IN  /\ after \in {before, before - 1}
                /\ after >= 0
                /\ SubSeq(tableaux'[t].cards, 1, after)
                      = SubSeq(tableaux[t].cards, 1, after)
                /\ after = before - 1 =>
                      /\ Drop
                      /\ hand_origin = 5 + t
                      /\ tableaux[t].shown_cards = 0
                      /\ tableaux'[t].cards = tableaux[t].cards
                      /\ tableaux'[t].shown_cards = 1]_vars

\* QH has left tableau 3 for the KC of tableau 1: of the three cards dealt
\* face down to tableau 3, two still are, and the 7D is shown.
C21_Witness ==
    /\ Idle
    /\ scenario = "play"
    /\ Len(tableaux[3].cards) = 3
    /\ tableaux[3].shown_cards = 1
    /\ Len(tableaux[1].cards) = 3
    /\ tableaux[1].cards[3].value = 24

====
